---- MODULE Spec2Model ----
(***************************************************************************)
(* State-machine model of ACG/AutoRouter.py (class EZRouter).              *)
(*                                                                         *)
(* Coordinates are integers on the layout grid.  A rectangle is a record   *)
(* [ll, ur, layer] of its lower-left and upper-right corner; a point is a  *)
(* pair <<x, y>>.  Python's None is modelled by the falsy value of the     *)
(* parameter's type: 0 for a width, "" for a layer, <<>> for a size or an  *)
(* enclosure list.                                                         *)
(***************************************************************************)
EXTENDS Integers, Sequences, FiniteSets, TLC

VARIABLES
    current_rect,    \* EZRouter.current_rect
    current_dir,     \* EZRouter.current_dir
    current_handle,  \* EZRouter.current_handle
    layer,           \* EZRouter.layer
    loc,             \* EZRouter.loc
    config,          \* EZRouter.config (the router section of tech_info)
    gen_rects,       \* rectangles registered with the layout generator
    gen_vias,        \* primitive vias registered with the layout generator
    err,             \* exception raised by the last operation, "none" if it returned
    log,             \* primitive calls made by the last operation, in order
    last,            \* the last operation and the cursor it started from
    nops,            \* number of operations called so far
    other,           \* a second EZRouter built on the same generator, if made
    m_pc,            \* manhattanize_point_list: "call" before, "done" after
    m_dir,           \* manhattanize_point_list: initial_direction
    m_init,          \* manhattanize_point_list: initial_point
    m_points,        \* manhattanize_point_list: points
    m_out            \* manhattanize_point_list: returned list

rvars == <<current_rect, current_dir, current_handle, layer, loc, config,
           gen_rects, gen_vias, err, log, last, nops, other>>
mvars == <<m_pc, m_dir, m_init, m_points, m_out>>
vars == <<rvars, mvars>>

----------------------------------------------------------------------------
(* Bounds of the model *)

MaxOps == 2        \* operations called on one router
MaxCoord == 1      \* target coordinates are 0, 5, ..., 5 * MaxCoord
MaxCascadeCoord == 2  \* the same for a cascade from a fresh router
MaxPts == 2        \* longest point list handed to cardinal_router
MaxManhPts == 3    \* longest point list handed to manhattanize_point_list
MaxManhCoord == 1  \* manhattanize_point_list coordinates are 0 .. MaxManhCoord

----------------------------------------------------------------------------
(* Vocabulary *)

Dirs == {"+x", "-x", "+y", "-y"}
Layers == {"M1", "M2", "M3"}
Coords == {5 * i : i \in 0..MaxCoord}
Locs == Coords \X Coords
CascadeCoords == {5 * i : i \in 0..MaxCascadeCoord}
CascadeLocs == CascadeCoords \X CascadeCoords

\* Position of a metal layer in the stack (the technology's layer order)
LayerIdx(l) == CASE l = "M1" -> 1 [] l = "M2" -> 2 [] l = "M3" -> 3

\* Key of a layer entry and of a via entry ('V' + a + '_' + b) in the config
LayerKey(l) == <<l>>
ViaKey(a, b) == <<"V", a, "_", b>>

\* tech_info['metal_tech']['router']: M3 has no width, V M2_M3 has no entry
TechRouter ==
    (LayerKey("M1") :> [width |-> 2]) @@
    (LayerKey("M2") :> [width |-> 4]) @@
    (ViaKey("M1", "M2") :> [size |-> <<1, 1>>,
                            asymm_enclosure_large |-> 3,
                            asymm_enclosure_small |-> 1])

\* dict.update: entries of the right operand replace those of the left
DictUpdate(d, u) == u @@ d

----------------------------------------------------------------------------
(* Geometry primitives (ACG.Rectangle, ACG.XY) *)

DefaultDim == 2

\* AyarLayoutGenerator.add_rect(layer): a fresh rectangle at the origin
NewRect(l) == [ll |-> <<0, 0>>, ur |-> <<DefaultDim, DefaultDim>>, layer |-> l]

\* Rectangle.__getitem__: coordinate of a named handle
Handle(r, h) ==
    LET cx == (r.ll[1] + r.ur[1]) \div 2
        cy == (r.ll[2] + r.ur[2]) \div 2
    IN CASE h = "c"  -> <<cx, cy>>
         [] h = "cl" -> <<r.ll[1], cy>>
         [] h = "cr" -> <<r.ur[1], cy>>
         [] h = "cb" -> <<cx, r.ll[2]>>
         [] h = "ct" -> <<cx, r.ur[2]>>

\* Rectangle.get_dim
GetDim(r, dim) == IF dim = "x" THEN r.ur[1] - r.ll[1] ELSE r.ur[2] - r.ll[2]

\* set_dim resizing the axis it was not asked to resize
SetDimSwapped(r, dim, size) ==
    LET c == Handle(r, "c")
    IN IF dim = "y"
       THEN [r EXCEPT !.ll = <<c[1] - size \div 2, r.ll[2]>>,
                      !.ur = <<c[1] - size \div 2 + size, r.ur[2]>>]
       ELSE [r EXCEPT !.ll = <<r.ll[1], c[2] - size \div 2>>,
                      !.ur = <<r.ur[1], c[2] - size \div 2 + size>>]

\* Rectangle.set_dim: resize one axis about the rectangle's center
SetDim(r, dim, size) ==
    LET c == Handle(r, "c")
    IN IF dim = "x"
       THEN [r EXCEPT !.ll = <<c[1] - size \div 2, r.ll[2]>>,
                      !.ur = <<c[1] - size \div 2 + size, r.ur[2]>>]
       ELSE [r EXCEPT !.ll = <<r.ll[1], c[2] - size \div 2>>,
                      !.ur = <<r.ur[1], c[2] - size \div 2 + size>>]

\* Rectangle.align: translate r so that its target handle lies on p
AlignTo(r, target_handle, p) ==
    LET h == Handle(r, target_handle)
        dx == p[1] - h[1]
        dy == p[2] - h[2]
    IN [r EXCEPT !.ll = <<r.ll[1] + dx, r.ll[2] + dy>>,
                 !.ur = <<r.ur[1] + dx, r.ur[2] + dy>>]

Align(r, target_handle, ref_rect, ref_handle) ==
    AlignTo(r, target_handle, Handle(ref_rect, ref_handle))

\* Rectangle.stretch without reference rectangle: the edge that carries the
\* target handle moves to the absolute offset on the enabled axes
Stretch(r, target_handle, offset, stretch_opt) ==
    LET sx == IF stretch_opt[1]
              THEN CASE target_handle = "cl" -> [r EXCEPT !.ll = <<offset[1], r.ll[2]>>]
                     [] target_handle = "cr" -> [r EXCEPT !.ur = <<offset[1], r.ur[2]>>]
                     [] OTHER -> r
              ELSE r
    IN IF stretch_opt[2]
       THEN CASE target_handle = "cb" -> [sx EXCEPT !.ll = <<sx.ll[1], offset[2]>>]
              [] target_handle = "ct" -> [sx EXCEPT !.ur = <<sx.ur[1], offset[2]>>]
              [] OTHER -> sx
       ELSE sx

\* Rectangle.get_highest_layer: the higher of the rectangle's layer and l
GetHighestLayer(r, l) == IF LayerIdx(r.layer) >= LayerIdx(l) THEN r.layer ELSE l

XAxis(d) == d = "+x" \/ d = "-x"

\* The value of a one-point function [x \in {v} |-> e]: e with x bound to the
\* value of v, v evaluated once. One statement's result handed to the
\* statements after it.
Bind(f) == CHOOSE r \in UNION {{g[x] : x \in DOMAIN g} : g \in {f}} : TRUE

----------------------------------------------------------------------------
(* Router state threaded through the methods: the fields a method reads    *)
(* and writes, gathered in one record                                      *)

\* _set_handle_from_dir with the two vertical handles exchanged
SetHandleFromDirSwapped(handle, direction) ==
    CASE direction = "+x" -> "cr"
      [] direction = "-x" -> "cl"
      [] direction = "+y" -> "cb"
      [] direction = "-y" -> "ct"
      [] OTHER -> handle

\* EZRouter._set_handle_from_dir
SetHandleFromDir(handle, direction) ==
    CASE direction = "+x" -> "cr"
      [] direction = "-x" -> "cl"
      [] direction = "+y" -> "ct"
      [] direction = "-y" -> "cb"
      [] OTHER -> handle

Self == [rect |-> current_rect, dir |-> current_dir, handle |-> current_handle,
         config |-> config, rects |-> gen_rects, vias |-> gen_vias,
         err |-> "none", log |-> <<>>]

Anchor(s) == Handle(s.rect, s.handle)

\* One primitive call as the log keeps it: the cursor it started from (s),
\* its arguments, the rectangle it made, whether it registered a via and
\* whether it returned (ok) or raised
LogEntry(op, s, to, lyr, direction, rect, via, ok) ==
    [op |-> op, to |-> to, layer |-> lyr, dir |-> direction,
     pre_dir |-> s.dir, pre_anchor |-> Anchor(s), pre_rect |-> s.rect,
     rect |-> rect, via |-> via, ok |-> ok]

\* draw_straight_route aligning 'cl' and 'cb' whatever the sign of the direction
TrailingHandleOneSided(d) == IF XAxis(d) THEN "cl" ELSE "cb"

\* Handle of a new segment that is put on the cursor's anchor
TrailingHandle(d) ==
    IF XAxis(d)
    THEN (IF d = "+x" THEN "cl" ELSE "cr")
    ELSE (IF d = "+y" THEN "cb" ELSE "ct")

\* draw_straight_route that also turns the cursor round to the opposite
\* direction
DrawStraightRouteReversing(s, to, width) ==
    LET dim == IF XAxis(s.dir) THEN "y" ELSE "x"
        stretch_opt == IF XAxis(s.dir) THEN <<TRUE, FALSE>> ELSE <<FALSE, TRUE>>
        back == CASE s.dir = "+x" -> "-x" [] s.dir = "-x" -> "+x"
                  [] s.dir = "+y" -> "-y" [] OTHER -> "+y"
    IN Bind([new_rect \in {Stretch(Align(SetDim(NewRect(s.rect.layer), dim,
                                                IF width # 0 THEN width
                                                ELSE GetDim(s.rect, dim)),
                                         TrailingHandle(s.dir), s.rect, s.handle),
                                   s.handle, to, stretch_opt)} |->
              [s EXCEPT !.rect = new_rect,
                        !.dir = back,
                        !.handle = SetHandleFromDir(s.handle, back),
                        !.rects = Append(@, new_rect),
                        !.log = Append(@, LogEntry("extend", s, to, new_rect.layer,
                                                   s.dir, new_rect, FALSE, TRUE))]])

\* EZRouter.draw_straight_route
DrawStraightRoute(s, to, width) ==
    LET dim == IF XAxis(s.dir) THEN "y" ELSE "x"
        stretch_opt == IF XAxis(s.dir) THEN <<TRUE, FALSE>> ELSE <<FALSE, TRUE>>
    IN Bind([sized \in {SetDim(NewRect(s.rect.layer), dim,
                   IF width # 0 THEN width ELSE GetDim(s.rect, dim))} |->
       Bind([aligned \in {Align(sized, TrailingHandle(s.dir), s.rect, s.handle)} |->
       Bind([new_rect \in {Stretch(aligned, s.handle, to, stretch_opt)} |->
              [s EXCEPT !.rect = new_rect,
                        !.rects = Append(@, new_rect),
                        !.log = Append(@, LogEntry("extend", s, to, new_rect.layer,
                                                   s.dir, new_rect, FALSE, TRUE))]])])])

\* Enclosure list [left, right, top, bottom]-style pattern of the asymmetric
\* style: large on the pair chosen by the wire's axis, small on the other
EncPattern(d, enc_large, enc_small) ==
    IF XAxis(d)
    THEN <<enc_large, enc_large, enc_small, enc_small>>
    ELSE <<enc_small, enc_small, enc_large, enc_large>>

\* draw_via naming the via in call order: current layer first
ViaIdCallOrder(s, lyr) == ViaKey(s.rect.layer, lyr)

\* Identifier of the via between the cursor's layer and lyr: lower layer first
ViaId(s, lyr) ==
    IF GetHighestLayer(s.rect, lyr) = s.rect.layer
    THEN ViaKey(lyr, s.rect.layer)
    ELSE ViaKey(s.rect.layer, lyr)

\* draw_via adding a primitive via on every turn
NeedsViaAlways(s, lyr) == TRUE

\* The condition under which draw_via adds a primitive via
NeedsVia(s, lyr) == lyr # s.rect.layer

\* draw_via leaving by an exception: the rectangle r and the vias registered
\* so far stay with the layout generator, the cursor is as it was
ViaRaise(s, lyr, direction, r, vias, via) ==
    [s EXCEPT !.rects = Append(@, r),
              !.vias = vias,
              !.err = "KeyError",
              !.log = Append(@, LogEntry("turn", s, Anchor(s), lyr, direction,
                                         r, via, FALSE))]

\* draw_via returning: the cursor moves to the junction rectangle r
ViaReturn(s, lyr, direction, r, vias, via) ==
    [s EXCEPT !.rect = r,
              !.dir = direction,
              !.handle = SetHandleFromDir(s.handle, direction),
              !.rects = Append(@, r),
              !.vias = vias,
              !.log = Append(@, LogEntry("turn", s, Anchor(s), lyr, direction,
                                         r, via, TRUE))]

\* The asymmetric enclosures assigned in call order: the incoming wire's
\* pattern always to the bottom set, the outgoing wire's to the top set
AsymmEnclosureCallOrder(s, lyr, direction, via) ==
    LET default_enc == s.config[ViaId(s, lyr)]
    IN [via EXCEPT !.enc_bot = EncPattern(s.dir, default_enc.asymm_enclosure_large,
                                          default_enc.asymm_enclosure_small),
                   !.enc_top = EncPattern(direction, default_enc.asymm_enclosure_large,
                                          default_enc.asymm_enclosure_small)]

\* The asymmetric enclosures of draw_via set on a new via
AsymmEnclosure(s, lyr, direction, via) ==
    LET default_enc == s.config[ViaId(s, lyr)]
        cur_pat == EncPattern(s.dir, default_enc.asymm_enclosure_large,
                              default_enc.asymm_enclosure_small)
        next_pat == EncPattern(direction, default_enc.asymm_enclosure_large,
                               default_enc.asymm_enclosure_small)
    IN IF GetHighestLayer(s.rect, lyr) = s.rect.layer
       THEN [via EXCEPT !.enc_top = cur_pat, !.enc_bot = next_pat]
       ELSE [via EXCEPT !.enc_bot = cur_pat, !.enc_top = next_pat]

\* The via parameters of draw_via set on a styled via
ViaParameters(s, via_id, via, size, enc_bot, enc_top) ==
    [via EXCEPT !.size = IF size # <<>> THEN size ELSE s.config[via_id].size,
                !.enc_bot = IF enc_bot # <<>> THEN enc_bot ELSE @,
                !.enc_top = IF enc_top # <<>> THEN enc_top ELSE @]

\* EZRouter.draw_via
DrawVia(s, lyr, direction, enc_style, out_width, size, enc_bot, enc_top) ==
    Bind([aligned \in {Align(NewRect(lyr), "c", s.rect, s.handle)} |->
      IF out_width = 0 /\ LayerKey(lyr) \notin DOMAIN s.config
      THEN ViaRaise(s, lyr, direction, aligned, s.vias, FALSE)
      ELSE
       Bind([new_rect \in {SetDim(IF XAxis(s.dir)
                   THEN SetDim(aligned, "y", GetDim(s.rect, "y"))
                   ELSE SetDim(aligned, "x", GetDim(s.rect, "x")),
                   IF XAxis(direction) THEN "y" ELSE "x",
                   IF out_width # 0 THEN out_width ELSE s.config[LayerKey(lyr)].width)} |->
         IF ~NeedsVia(s, lyr)
         THEN ViaReturn(s, lyr, direction, new_rect, s.vias, FALSE)
         ELSE
          Bind([via_id \in {ViaId(s, lyr)} |->
          Bind([via \in {[via_id |-> via_id, rect |-> new_rect, from |-> s.rect.layer,
                to |-> lyr, size |-> <<>>, enc_bot |-> <<>>, enc_top |-> <<>>]} |->
            IF enc_style = "asymm" /\ via_id \notin DOMAIN s.config
            THEN ViaRaise(s, lyr, direction, new_rect, Append(s.vias, via), TRUE)
            ELSE
             Bind([styled \in {IF enc_style = "asymm" THEN AsymmEnclosure(s, lyr, direction, via)
                  ELSE via} |->
               IF size = <<>> /\ via_id \notin DOMAIN s.config
               THEN ViaRaise(s, lyr, direction, new_rect, Append(s.vias, styled), TRUE)
               ELSE ViaReturn(s, lyr, direction, new_rect,
                              Append(s.vias, ViaParameters(s, via_id, styled, size,
                                                           enc_bot, enc_top)),
                              TRUE)])])])])])

\* The turn inference with the comparison reversed
TurnTowardReversed(s, p) ==
    IF XAxis(s.dir)
    THEN (IF Anchor(s)[2] > p[2] THEN "+y" ELSE "-y")
    ELSE (IF Anchor(s)[1] > p[1] THEN "+x" ELSE "-x")

\* Direction of the turn toward point p: the positive off-axis direction
\* when the anchor's off-axis coordinate is below p's, else the negative one
TurnToward(s, p) ==
    IF XAxis(s.dir)
    THEN (IF Anchor(s)[2] < p[2] THEN "+y" ELSE "-y")
    ELSE (IF Anchor(s)[1] < p[1] THEN "+x" ELSE "-x")

\* Width of the cursor's rectangle across its direction
CurrentWidth(s) == IF XAxis(s.dir) THEN GetDim(s.rect, "y") ELSE GetDim(s.rect, "x")

\* EZRouter.draw_l_route
DrawLRoute(s, to, enc_style, in_width, out_width, lyr, enc_bot, enc_top, omit) ==
    Bind([first \in {DrawStraightRoute(s, to, in_width)} |->
    Bind([turned \in {DrawVia(first,
                 IF lyr = "" THEN first.rect.layer ELSE lyr,
                 TurnToward(first, to),
                 enc_style,
                 IF out_width = 0 THEN CurrentWidth(first) ELSE out_width,
                 <<>>, enc_bot, enc_top)} |->
           IF turned.err # "none" THEN turned
           ELSE IF omit THEN turned
           ELSE DrawStraightRoute(turned, to, 0)])])

\* _draw_route_segment that, given no next point, turns toward pt0 instead
\* of keeping the current direction
DrawRouteSegmentTurning(s, pt0, pt1, enc_style, in_width, out_width, enc_bot, enc_top) ==
    Bind([first \in {DrawStraightRoute(s, pt0[1], in_width)} |->
      DrawVia(first,
              pt0[2],
              IF pt1 # <<>> THEN TurnToward(first, pt1[1]) ELSE TurnToward(first, pt0[1]),
              enc_style,
              IF out_width = 0 THEN CurrentWidth(first) ELSE out_width,
              <<>>, enc_bot, enc_top)])

\* EZRouter._draw_route_segment; pt1 = <<>> stands for None
DrawRouteSegment(s, pt0, pt1, enc_style, in_width, out_width, enc_bot, enc_top) ==
    Bind([first \in {DrawStraightRoute(s, pt0[1], in_width)} |->
      DrawVia(first,
              pt0[2],
              IF pt1 # <<>> THEN TurnToward(first, pt1[1]) ELSE first.dir,
              enc_style,
              IF out_width = 0 THEN CurrentWidth(first) ELSE out_width,
              <<>>, enc_bot, enc_top)])

\* The diagonal test with 'or' in place of 'and'
IsDiagonalEither(dx, dy) == dx # 0 \/ dy # 0

\* The test for a point offset in both dimensions
IsDiagonal(dx, dy) == dx # 0 /\ dy # 0

\* The intermediate point moved across the current axis instead of along it
IntermediateAcross(current_point, dx, dy, cur_dir) ==
    IF cur_dir = "x"
    THEN <<(<<current_point[1][1], current_point[1][2] + dy>>), current_point[2]>>
    ELSE <<(<<current_point[1][1] + dx, current_point[1][2]>>), current_point[2]>>

\* The intermediate point moved along both axes
IntermediateBoth(current_point, dx, dy, cur_dir) ==
    <<(<<current_point[1][1] + dx, current_point[1][2] + dy>>), current_point[2]>>

\* The intermediate point put before a diagonal target: it moves along the
\* current axis only and stays on the current point's layer
Intermediate(current_point, dx, dy, cur_dir) ==
    IF cur_dir = "x"
    THEN <<(<<current_point[1][1] + dx, current_point[1][2]>>), current_point[2]>>
    ELSE <<(<<current_point[1][1], current_point[1][2] + dy>>), current_point[2]>>

\* The loop of manhattanize_point_list accepting a point that does not move
\* like a point that moves along one axis
RECURSIVE ManhLoopKeepingAll(_, _, _, _, _)
ManhLoopKeepingAll(points, i, manh_point_list, current_point, cur_dir) ==
    IF i > Len(points) THEN manh_point_list
    ELSE
     LET next_point == points[i]
         dx == next_point[1][1] - current_point[1][1]
         dy == next_point[1][2] - current_point[1][2]
     IN IF IsDiagonal(dx, dy)
        THEN ManhLoopKeepingAll(points, i + 1,
                                manh_point_list
                                  \o <<Intermediate(current_point, dx, dy, cur_dir),
                                       next_point>>,
                                next_point,
                                IF cur_dir = "x" THEN "y" ELSE "x")
        ELSE ManhLoopKeepingAll(points, i + 1, Append(manh_point_list, next_point),
                                next_point, IF dx = 0 THEN "y" ELSE "x")

\* The loop of manhattanize_point_list from the i-th point on
RECURSIVE ManhLoop(_, _, _, _, _)
ManhLoop(points, i, manh_point_list, current_point, cur_dir) ==
    IF i > Len(points) THEN manh_point_list
    ELSE
     LET next_point == points[i]
         dx == next_point[1][1] - current_point[1][1]
         dy == next_point[1][2] - current_point[1][2]
     IN IF IsDiagonal(dx, dy)
        THEN ManhLoop(points, i + 1,
                      manh_point_list
                        \o <<Intermediate(current_point, dx, dy, cur_dir), next_point>>,
                      next_point,
                      IF cur_dir = "x" THEN "y" ELSE "x")
        ELSE IF dx = 0 /\ dy = 0
        THEN ManhLoop(points, i + 1, manh_point_list, current_point, cur_dir)
        ELSE ManhLoop(points, i + 1, Append(manh_point_list, next_point), next_point,
                      IF dx = 0 THEN "y" ELSE "x")

\* manhattanize_point_list starting its loop at the second target
ManhattanizeFromSecond(initial_direction, initial_point, points) ==
    ManhLoop(points, 2, <<initial_point>>, initial_point,
             IF XAxis(initial_direction) THEN "x" ELSE "y")

\* EZRouter.manhattanize_point_list
ManhattanizePointList(initial_direction, initial_point, points) ==
    ManhLoop(points, 1, <<initial_point>>, initial_point,
             IF XAxis(initial_direction) THEN "x" ELSE "y")

\* One step of cardinal_router: the config widths of the cursor's layer and
\* of the waypoint's layer are looked up, then _draw_route_segment is called
CascadeStep(s, pt0, pt1, enc_style) ==
    IF LayerKey(s.rect.layer) \notin DOMAIN s.config
       \/ LayerKey(pt0[2]) \notin DOMAIN s.config
    THEN [s EXCEPT !.err = "KeyError"]
    ELSE DrawRouteSegment(s, pt0, pt1, enc_style,
                          s.config[LayerKey(s.rect.layer)].width,
                          s.config[LayerKey(pt0[2])].width, <<>>, <<>>)

\* The loop of cardinal_router over the consecutive pairs from the i-th on
RECURSIVE CascadeLoop(_, _, _)
CascadeLoop(s, final_point_list, i) ==
    IF i >= Len(final_point_list) THEN s
    ELSE Bind([step \in {CascadeStep(s, final_point_list[i], final_point_list[i + 1], "asymm")} |->
                IF step.err # "none" THEN step
                ELSE CascadeLoop(step, final_point_list, i + 1)])

\* The targets of cardinal_router in absolute coordinates
AbsolutePoints(s, points, relative_coords) ==
    IF relative_coords
    THEN [k \in 1..Len(points) |->
            <<(<<points[k][1][1] + Anchor(s)[1], points[k][1][2] + Anchor(s)[2]>>),
              points[k][2]>>]
    ELSE points

\* cardinal_router keeping the manhattanized list's first point, the start
\* point, as a waypoint
CardinalRouterFromStart(s, points, relative_coords) ==
    Bind([final_point_list \in {ManhattanizePointList(s.dir, <<Anchor(s), s.rect.layer>>,
                                    AbsolutePoints(s, points, relative_coords))} |->
    Bind([looped \in {CascadeLoop(s, final_point_list, 1)} |->
      IF looped.err # "none" THEN looped
      ELSE CascadeStep(looped, final_point_list[Len(final_point_list)], <<>>,
                       "uniform")])])

\* EZRouter.cardinal_router
CardinalRouter(s, points, relative_coords) ==
    Bind([final_point_list \in {Tail(ManhattanizePointList(s.dir, <<Anchor(s), s.rect.layer>>,
                                    AbsolutePoints(s, points, relative_coords)))} |->
    Bind([looped \in {CascadeLoop(s, final_point_list, 1)} |->
      IF looped.err # "none" THEN looped
      ELSE IF final_point_list = <<>> THEN [looped EXCEPT !.err = "IndexError"]
      ELSE CascadeStep(looped, final_point_list[Len(final_point_list)], <<>>,
                       "uniform")])])

----------------------------------------------------------------------------
(* Construction *)

\* Sequences over S of length at most n
SeqsUpTo(S, n) == UNION {[1..k -> S] : k \in 0..n}

\* The start rectangles handed to the constructor: on the given layer, of
\* width 2, with the handle of the start direction at the origin
StartRect(start_direction, l) ==
    AlignTo(NewRect(l), SetHandleFromDir("", start_direction), <<0, 0>>)

\* The config arguments handed to the constructor; <<>> stands for None
ConfigArgs == {<<>>, LayerKey("M3") :> [width |-> 2]}

NoOp == [op |-> "init", to |-> <<0, 0>>, lyr |-> "", dir |-> "", enc_style |-> "",
         width |-> 0, out_width |-> 0, size |-> <<>>, enc_bot |-> <<>>,
         enc_top |-> <<>>, omit |-> FALSE, points |-> <<>>, relative |-> FALSE]

\* The second router before it is constructed
NoOther == [made |-> FALSE, rect |-> NewRect("M1"), dir |-> "+x", handle |-> "cr",
            nops |-> 0]

\* EZRouter.__init__
RouterInit(start_rect, start_direction, config_arg) ==
    /\ config = (IF DOMAIN config_arg # {} THEN DictUpdate(TechRouter, config_arg)
                 ELSE TechRouter)
    /\ other = NoOther
    /\ current_rect = start_rect
    /\ current_dir = start_direction
    /\ current_handle = SetHandleFromDir("", start_direction)
    /\ layer = start_rect.layer
    /\ loc = [route_list |-> <<start_rect>>, rect_list |-> <<start_rect>>,
              via_list |-> <<>>]
    /\ gen_rects = <<start_rect>>
    /\ gen_vias = <<>>
    /\ err = "none"
    /\ log = <<>>
    /\ last = [call |-> NoOp, pre |-> [rect |-> start_rect, dir |-> start_direction,
                                       handle |-> SetHandleFromDir("", start_direction)],
               nrects |-> 0, nvias |-> 0]
    /\ nops = 0

Init ==
    /\ \E start_direction \in Dirs, l \in {"M1", "M2"}, config_arg \in ConfigArgs :
          RouterInit(StartRect(start_direction, l), start_direction, config_arg)
    /\ m_pc = "idle"
    /\ m_dir = "+x"
    /\ m_init = <<(<<0, 0>>), "M1">>
    /\ m_points = <<>>
    /\ m_out = <<>>

----------------------------------------------------------------------------
(* Operations *)

\* The state a method call leaves behind: the fields of the record s it
\* returned or raised with, and the record of the call
Commit(s, call) ==
    /\ current_rect' = s.rect
    /\ current_dir' = s.dir
    /\ current_handle' = s.handle
    /\ gen_rects' = s.rects
    /\ gen_vias' = s.vias
    /\ err' = s.err
    /\ log' = s.log
    /\ last' = [call |-> call,
                pre |-> [rect |-> current_rect, dir |-> current_dir,
                         handle |-> current_handle],
                nrects |-> Len(gen_rects), nvias |-> Len(gen_vias)]
    /\ nops' = nops + 1
    /\ UNCHANGED <<layer, loc, config, other, mvars>>

Widths == {0, 4}
EncStyles == {"uniform", "asymm"}

\* Explicit out_width, size, enc_bot and enc_top arguments of draw_via
ViaArgs ==
    { [out_width |-> 0, size |-> <<>>, enc_bot |-> <<>>, enc_top |-> <<>>],
      [out_width |-> 2, size |-> <<>>, enc_bot |-> <<>>, enc_top |-> <<>>],
      [out_width |-> 2, size |-> <<2, 2>>, enc_bot |-> <<>>, enc_top |-> <<>>],
      [out_width |-> 2, size |-> <<2, 2>>, enc_bot |-> <<5, 5, 5, 5>>,
       enc_top |-> <<6, 6, 6, 6>>] }

\* A call of draw_straight_route
Extend ==
    /\ nops < MaxOps
    /\ \E self \in {Self}, to \in Locs, width \in Widths :
          \E s \in {DrawStraightRoute(self, to, width)} :
             Commit(s, [NoOp EXCEPT !.op = "extend", !.to = to, !.width = width])

\* A call of draw_via
Turn ==
    /\ nops < MaxOps
    /\ \E self \in {Self}, l \in Layers, direction \in Dirs, enc_style \in EncStyles, a \in ViaArgs :
          \E s \in {DrawVia(self, l, direction, enc_style, a.out_width, a.size,
                            a.enc_bot, a.enc_top)} :
             Commit(s, [NoOp EXCEPT !.op = "turn", !.lyr = l, !.dir = direction,
                                    !.enc_style = enc_style, !.out_width = a.out_width,
                                    !.size = a.size, !.enc_bot = a.enc_bot,
                                    !.enc_top = a.enc_top])

\* A call of draw_l_route
LRoute ==
    /\ nops < MaxOps
    /\ \E self \in {Self}, to \in Locs, l \in {"", "M2", "M3"}, enc_style \in EncStyles,
          omit \in BOOLEAN :
          \E s \in {DrawLRoute(self, to, enc_style, 0, 0, l, <<>>, <<>>, omit)} :
             Commit(s, [NoOp EXCEPT !.op = "l_route", !.to = to, !.lyr = l,
                                    !.enc_style = enc_style, !.omit = omit])

\* The targets handed to cardinal_router
Targets == Locs \X {"M1", "M2"}

\* A call of cardinal_router
Cardinal ==
    /\ nops < MaxOps
    /\ \E self \in {Self}, points \in SeqsUpTo(Targets, MaxPts) :
          \E s \in {CardinalRouter(self, points, FALSE)} :
             Commit(s, [NoOp EXCEPT !.op = "cardinal", !.points = points])

Next == Extend \/ Turn \/ LRoute \/ Cardinal

Spec == Init /\ [][Next]_vars

----------------------------------------------------------------------------
(* cardinal_router called once on a freshly constructed router, with       *)
(* targets further away and with absolute or relative coordinates          *)

CascadeTargets == CascadeLocs \X {"M1", "M2"}

\* A call of cardinal_router on a fresh router
Cascade ==
    /\ nops = 0
    /\ \E self \in {Self}, points \in SeqsUpTo(CascadeTargets, MaxPts), relative_coords \in BOOLEAN :
          \E s \in {CardinalRouter(self, points, relative_coords)} :
             Commit(s, [NoOp EXCEPT !.op = "cardinal", !.points = points,
                                    !.relative = relative_coords])

NextCascade == Cascade

SpecCascade == Init /\ [][NextCascade]_vars

----------------------------------------------------------------------------
(* manhattanize_point_list as a function of its arguments *)

ManhCoords == 0..MaxManhCoord
ManhTargets == (ManhCoords \X ManhCoords) \X {"M1", "M2"}

InitManh ==
    /\ RouterInit(StartRect("+x", "M1"), "+x", <<>>)
    /\ m_pc = "call"
    /\ m_dir \in Dirs
    /\ m_init = <<(<<0, 0>>), "M1">>
    /\ m_points \in SeqsUpTo(ManhTargets, MaxManhPts)
    /\ m_out = <<>>

\* A call of manhattanize_point_list
ManhCall ==
    /\ m_pc = "call"
    /\ m_out' = ManhattanizePointList(m_dir, m_init, m_points)
    /\ m_pc' = "done"
    /\ UNCHANGED <<rvars, m_dir, m_init, m_points>>

NextManh == ManhCall

SpecManh == InitManh /\ [][NextManh]_vars

----------------------------------------------------------------------------
(* draw_via called with a direction token outside the four *)

BadTokens == {"+z", "up"}

\* A call of draw_via whose direction is none of '+x', '-x', '+y', '-y'
TurnToken ==
    /\ nops < MaxOps
    /\ \E self \in {Self}, l \in {"M1", "M2"}, direction \in BadTokens, a \in ViaArgs :
          \E s \in {DrawVia(self, l, direction, "uniform", a.out_width, a.size,
                            a.enc_bot, a.enc_top)} :
             Commit(s, [NoOp EXCEPT !.op = "turn", !.lyr = l, !.dir = direction,
                                    !.enc_style = "uniform", !.out_width = a.out_width,
                                    !.size = a.size, !.enc_bot = a.enc_bot,
                                    !.enc_top = a.enc_top])

NextTokens == TurnToken \/ Extend \/ Turn

SpecTokens == Init /\ [][NextTokens]_vars

----------------------------------------------------------------------------
(* A second router constructed and used on the same layout generator.      *)
(* self.config is tech_info['metal_tech']['router'] itself (no copy is     *)
(* taken), so the variable config is the one dictionary both routers hold  *)

\* The config arguments handed to the second constructor
OtherConfigArgs == {<<>>, LayerKey("M3") :> [width |-> 2], LayerKey("M1") :> [width |-> 6]}

\* The second router's fields as the methods take them
OtherSelf == [rect |-> other.rect, dir |-> other.dir, handle |-> other.handle,
              config |-> config, rects |-> gen_rects, vias |-> gen_vias,
              err |-> "none", log |-> <<>>]

\* EZRouter.__init__ of the second router
ConstructOther ==
    /\ ~other.made
    /\ \E start_direction \in {"+x", "+y"}, config_arg \in OtherConfigArgs :
          /\ config' = (IF DOMAIN config_arg # {} THEN DictUpdate(config, config_arg)
                        ELSE config)
          /\ other' = [made |-> TRUE, rect |-> StartRect(start_direction, "M1"),
                       dir |-> start_direction,
                       handle |-> SetHandleFromDir("", start_direction), nops |-> 0]
          /\ gen_rects' = Append(gen_rects, StartRect(start_direction, "M1"))
    /\ UNCHANGED <<current_rect, current_dir, current_handle, layer, loc, gen_vias,
                   err, log, last, nops, mvars>>

\* A call of draw_straight_route on the second router
ExtendOther ==
    /\ other.made
    /\ other.nops < 1
    /\ \E self \in {OtherSelf}, to \in Locs :
          \E s \in {DrawStraightRoute(self, to, 0)} :
             /\ other' = [other EXCEPT !.rect = s.rect, !.nops = @ + 1]
             /\ gen_rects' = s.rects
    /\ UNCHANGED <<current_rect, current_dir, current_handle, layer, loc, config,
                   gen_vias, err, log, last, nops, mvars>>

\* A call of draw_via on the first router, leaving upward
TurnUp ==
    /\ nops < MaxOps
    /\ \E self \in {Self}, l \in Layers, a \in ViaArgs :
          \E s \in {DrawVia(self, l, "+y", "uniform", a.out_width, a.size,
                            a.enc_bot, a.enc_top)} :
             Commit(s, [NoOp EXCEPT !.op = "turn", !.lyr = l, !.dir = "+y",
                                    !.enc_style = "uniform", !.out_width = a.out_width,
                                    !.size = a.size, !.enc_bot = a.enc_bot,
                                    !.enc_top = a.enc_top])

NextPair == ConstructOther \/ ExtendOther \/ TurnUp

SpecPair == Init /\ [][NextPair]_vars

----------------------------------------------------------------------------
(* Properties *)

CursorAnchor == Handle(current_rect, current_handle)
StartAnchor == Handle(last.pre.rect, last.pre.handle)
Segments == {i \in DOMAIN log : log[i].op = "extend"}
Turns == {i \in DOMAIN log : log[i].op = "turn"}

\* Where the cursor's anchor is after the segment of log entry e
SegmentEnd(e) ==
    Handle(e.rect, CASE e.dir = "+x" -> "cr" [] e.dir = "-x" -> "cl"
                     [] e.dir = "+y" -> "ct" [] e.dir = "-y" -> "cb")

\* The trailing edge midpoint of the segment of log entry e
SegmentStart(e) ==
    Handle(e.rect, CASE e.dir = "+x" -> "cl" [] e.dir = "-x" -> "cr"
                     [] e.dir = "+y" -> "cb" [] e.dir = "-y" -> "ct")

\* C1: every segment drawn by draw_straight_route, alone or inside an L-route
\* or a cascade, has its trailing edge midpoint (cl for +x, cr for -x, cb for
\* +y, ct for -y) exactly on the anchor the cursor had just before the call;
\* the first call of an operation starts from the cursor the operation found.
C1_EdgeContiguity ==
    /\ \A i \in Segments : SegmentStart(log[i]) = log[i].pre_anchor
    /\ log # <<>> => log[1].pre_anchor = StartAnchor
    /\ \A i \in Segments :
          i + 1 \in Segments => log[i + 1].pre_anchor = SegmentEnd(log[i])

\* C1 witness: an operation drew two segments in different directions, the
\* second one heading -y, after an earlier operation
C1_Witness ==
    /\ nops = 2
    /\ \E i, j \in Segments :
          /\ i < j
          /\ log[i].dir = "-x"
          /\ log[j].dir = "-y"
          /\ SegmentStart(log[j]) = log[j].pre_anchor
          /\ SegmentEnd(log[j]) # SegmentStart(log[j])

\* Point p lies on the straight line from a to b
Between(a, b, p) ==
    /\ (a[1] <= p[1] /\ p[1] <= b[1]) \/ (b[1] <= p[1] /\ p[1] <= a[1])
    /\ (a[2] <= p[2] /\ p[2] <= b[2]) \/ (b[2] <= p[2] /\ p[2] <= a[2])

\* Point p lies on the centerline of a drawn segment or at the center of a
\* junction rectangle of the last operation
OnRoute(p) ==
    \E i \in DOMAIN log :
        IF log[i].op = "extend"
        THEN Between(SegmentStart(log[i]), SegmentEnd(log[i]), p)
        ELSE Handle(log[i].rect, "c") = p

\* The targets of the last cardinal_router call in absolute coordinates
AbsoluteTargets ==
    [k \in DOMAIN last.call.points |->
        IF last.call.relative
        THEN <<last.call.points[k][1][1] + StartAnchor[1],
               last.call.points[k][1][2] + StartAnchor[2]>>
        ELSE last.call.points[k][1]]

\* C2: once cardinal_router has completed on a non-empty target list, the
\* drawn shapes start at the cursor's start anchor, every target coordinate
\* lies on a segment's centerline or at a junction's center, and the route
\* ends at the last target.
C2_CascadeReachesTargets ==
    (last.call.op = "cardinal" /\ last.call.points # <<>> /\ err = "none") =>
        /\ log # <<>>
        /\ log[1].pre_anchor = StartAnchor
        /\ \A k \in DOMAIN AbsoluteTargets : OnRoute(AbsoluteTargets[k])
        /\ \/ Handle(current_rect, "c") = AbsoluteTargets[Len(AbsoluteTargets)]
           \/ CursorAnchor = AbsoluteTargets[Len(AbsoluteTargets)]

\* C3: from anchor (0,0) on M1 heading +x, cardinal_router on
\* [((5,5),M1), ((5,10),M2)] extends to (5,0), turns to +y on M1, extends to
\* (5,5), turns onto M2 with direction +y, extends to (5,10); exactly one via
\* (M1/M2) is created, at (5,5).
C3_Scenario ==
    (/\ last.call.op = "cardinal"
     /\ last.call.points = << <<(<<5, 5>>), "M1">>, <<(<<5, 10>>), "M2">> >>
     /\ ~last.call.relative
     /\ last.pre.dir = "+x"
     /\ last.pre.rect.layer = "M1"
     /\ StartAnchor = <<0, 0>>) =>
        /\ err = "none"
        /\ Len(log) = 5
        /\ log[1].op = "extend" /\ SegmentEnd(log[1]) = <<5, 0>>
        /\ log[2].op = "turn" /\ log[2].layer = "M1" /\ log[2].dir = "+y"
        /\ log[3].op = "extend" /\ SegmentEnd(log[3]) = <<5, 5>>
        /\ log[4].op = "turn" /\ log[4].layer = "M2" /\ log[4].dir = "+y"
        /\ log[5].op = "extend" /\ SegmentEnd(log[5]) = <<5, 10>>
        /\ Len(gen_vias) = 1
        /\ gen_vias[1].via_id = ViaKey("M1", "M2")
        /\ Handle(gen_vias[1].rect, "c") = <<5, 5>>

\* Two points differ in exactly one of their two coordinates
OneAxisApart(p, q) == (p[1] # q[1]) # (p[2] # q[2])

\* C4: the list returned by manhattanize_point_list for N targets holds at
\* most 2N waypoints beyond the start point, and every two consecutive
\* waypoints differ in exactly one coordinate.
C4_BendBound ==
    m_pc = "done" =>
        /\ Len(m_out) - 1 <= 2 * Len(m_points)
        /\ \A i \in 1..(Len(m_out) - 1) : OneAxisApart(m_out[i][1], m_out[i + 1][1])

\* C4 witness: three diagonal targets gave six waypoints beyond the start
C4_Witness ==
    /\ m_pc = "done"
    /\ Len(m_points) = 3
    /\ Len(m_out) = 7

\* The start point followed by the targets is already axis-aligned
AxisAlignedInput ==
    LET path == <<m_init>> \o m_points
    IN \A i \in 1..(Len(path) - 1) : OneAxisApart(path[i][1], path[i + 1][1])

\* C5: when the start point followed by the targets already has every
\* consecutive pair differing in exactly one axis, the output without its
\* leading start point is the input list, unchanged.
C5_Idempotence ==
    (m_pc = "done" /\ AxisAlignedInput) => Tail(m_out) = m_points

\* C5 witness: an axis-aligned input of three targets on both layers that
\* turns at least once was returned
C5_Witness ==
    /\ m_pc = "done"
    /\ AxisAlignedInput
    /\ Len(m_points) = 3
    /\ m_points[1][1][1] # m_points[3][1][1]
    /\ m_points[1][1][2] # m_points[3][1][2]
    /\ m_points[1][2] # m_points[2][2]
    /\ Len(m_out) = 4

\* The parts of the L-route claim apart from the number of vias: for a
\* completed draw_l_route without the omit flag, the first segment ends at
\* the target's on-axis coordinate with the off-axis coordinate unchanged,
\* the turn goes to the positive off-axis direction when the target's
\* off-axis coordinate exceeds the anchor's and to the negative one
\* otherwise, and the final segment leaves the cursor anchor at the target;
\* two segments and one junction rectangle are registered
LRouteShape ==
    LET a == StartAnchor
        to == last.call.to
        on_x == last.pre.dir \in {"+x", "-x"}
    IN /\ Len(log) = 3
       /\ log[1].op = "extend" /\ log[2].op = "turn" /\ log[3].op = "extend"
       /\ SegmentEnd(log[1]) = (IF on_x THEN <<to[1], a[2]>> ELSE <<a[1], to[2]>>)
       /\ log[2].dir = (IF on_x
                        THEN (IF to[2] > a[2] THEN "+y" ELSE "-y")
                        ELSE (IF to[1] > a[1] THEN "+x" ELSE "-x"))
       /\ log[2].pre_anchor = SegmentEnd(log[1])
       /\ current_dir = log[2].dir
       /\ current_rect = log[3].rect
       /\ CursorAnchor = to
       /\ Len(gen_rects) = last.nrects + 3

LRouteCompleted == last.call.op = "l_route" /\ ~last.call.omit /\ err = "none"

\* C6 as stated: a completed draw_l_route without the omit flag draws the
\* first segment, the turn and the final segment described above and
\* produces two straight segments and one via.
C6_LRouteOneVia ==
    LRouteCompleted => (LRouteShape /\ Len(gen_vias) = last.nvias + 1)

\* C6 as amended: a completed draw_l_route without the omit flag draws the
\* first segment, the turn and the final segment described above; it
\* produces two straight segments and one junction rectangle, and a via is
\* registered exactly when the target layer differs from the cursor's layer.
C6_LRouteTurn ==
    LRouteCompleted =>
        /\ LRouteShape
        /\ Len(gen_vias) = last.nvias
                           + (IF last.call.lyr \in {"", last.pre.rect.layer} THEN 0 ELSE 1)

\* C6 witness: an L-route from a +x cursor to a target above it, kept on
\* the same layer, has completed without creating a via
C6_Witness ==
    /\ LRouteCompleted
    /\ last.pre.dir = "+x"
    /\ last.call.lyr = ""
    /\ last.call.to[1] > StartAnchor[1]
    /\ last.call.to[2] > StartAnchor[2]
    /\ current_dir = "+y"
    /\ CursorAnchor = last.call.to
    /\ Len(gen_vias) = last.nvias

\* C7: a draw_via call whose target layer is the layer of the cursor's
\* current rectangle never registers a via, whether called directly or
\* inside an L-route or a cascade; when it returns it has only added the
\* junction rectangle, which is the new current rectangle, and set the
\* direction and the anchor.
C7_SameLayerJogNoVia ==
    /\ \A i \in Turns : log[i].layer = log[i].pre_rect.layer => ~log[i].via
    /\ Len(gen_vias) = last.nvias + Cardinality({i \in Turns : log[i].via})
    /\ (last.call.op = "turn" /\ last.call.lyr = last.pre.rect.layer) =>
          /\ gen_vias = SubSeq(gen_vias, 1, last.nvias)
          /\ Len(gen_rects) = last.nrects + 1
          /\ err = "none" =>
                /\ current_rect = gen_rects[Len(gen_rects)]
                /\ current_rect.layer = last.call.lyr
                /\ current_dir = last.call.dir
                /\ Handle(current_rect, "c") = StartAnchor

\* C7 witness: after a via to M2, a turn on M2 changed the direction and
\* left the single via alone
C7_Witness ==
    /\ nops = 2
    /\ last.call.op = "turn"
    /\ last.call.lyr = last.pre.rect.layer
    /\ last.call.lyr = "M2"
    /\ err = "none"
    /\ current_dir # last.pre.dir
    /\ Len(gen_vias) = 1

\* The lower and the higher of two layers in the stack
LowerOf(a, b) == IF LayerIdx(a) <= LayerIdx(b) THEN a ELSE b
HigherOf(a, b) == IF LayerIdx(a) <= LayerIdx(b) THEN b ELSE a

\* C8: the identifier of every via depends only on which of the two layers
\* is lower, not on the layer the turn started from; a turn that gives no
\* size gets the array size of the config entry of that identifier, and one
\* in the asymmetric style without enclosure overrides gets its enclosure
\* values from the same entry.
C8_ViaCanonical ==
    /\ \A k \in DOMAIN gen_vias :
          gen_vias[k].via_id = ViaKey(LowerOf(gen_vias[k].from, gen_vias[k].to),
                                      HigherOf(gen_vias[k].from, gen_vias[k].to))
    /\ (last.call.op = "turn" /\ err = "none" /\ Len(gen_vias) > last.nvias) =>
          LET via == gen_vias[Len(gen_vias)]
              entry == config[ViaKey(LowerOf(last.pre.rect.layer, last.call.lyr),
                                     HigherOf(last.pre.rect.layer, last.call.lyr))]
              large == entry.asymm_enclosure_large
              small == entry.asymm_enclosure_small
              patterns == {<<large, large, small, small>>, <<small, small, large, large>>}
          IN /\ last.call.size = <<>> => via.size = entry.size
             /\ (last.call.enc_style = "asymm" /\ last.call.enc_bot = <<>>
                 /\ last.call.enc_top = <<>>) =>
                    (via.enc_bot \in patterns /\ via.enc_top \in patterns)

\* C8 witness: a turn from M1 to M2 and a turn back from M2 to M1, neither
\* giving a size, registered two vias with the same identifier and size
C8_Witness ==
    /\ Len(gen_vias) = 2
    /\ gen_vias[1].from = "M1" /\ gen_vias[1].to = "M2"
    /\ gen_vias[2].from = "M2" /\ gen_vias[2].to = "M1"
    /\ gen_vias[1].via_id = gen_vias[2].via_id
    /\ gen_vias[1].size = gen_vias[2].size
    /\ gen_vias[2].size = config[ViaKey("M1", "M2")].size
    /\ last.call.op = "turn"
    /\ last.call.enc_style = "asymm"
    /\ err = "none"

\* The last operation was a draw_via without explicit size or enclosure
\* that needed a default the config does not hold: the width of the target
\* layer, or the entry of the via to a different layer
TurnLacksDefault ==
    /\ last.call.op = "turn"
    /\ last.call.size = <<>>
    /\ last.call.enc_bot = <<>>
    /\ last.call.enc_top = <<>>
    /\ \/ (last.call.out_width = 0 /\ LayerKey(last.call.lyr) \notin DOMAIN config)
       \/ (/\ last.call.lyr # last.pre.rect.layer
           /\ ViaKey(LowerOf(last.pre.rect.layer, last.call.lyr),
                     HigherOf(last.pre.rect.layer, last.call.lyr)) \notin DOMAIN config)

\* C9: a draw_via that needs a default missing from the config, with no
\* explicit size or enclosure, fails with the missing-default error (the
\* KeyError of the config lookup) and has registered no via with the layout
\* generator.
C9_MissingDefaultNoVia ==
    TurnLacksDefault => (err = "KeyError" /\ Len(gen_vias) = last.nvias)

\* The target of the last draw_straight_route call lies at or behind the
\* anchor along the direction of the cursor
WrongSideExtend ==
    /\ last.call.op = "extend"
    /\ CASE last.pre.dir = "+x" -> last.call.to[1] <= StartAnchor[1]
         [] last.pre.dir = "-x" -> last.call.to[1] >= StartAnchor[1]
         [] last.pre.dir = "+y" -> last.call.to[2] <= StartAnchor[2]
         [] last.pre.dir = "-y" -> last.call.to[2] >= StartAnchor[2]

\* C10: a draw_straight_route whose target lies at or behind the cursor
\* anchor fails, and the cursor's current rectangle does not become a
\* segment of zero or negative extent.
C10_WrongSideRejected ==
    WrongSideExtend =>
        /\ err # "none"
        /\ GetDim(current_rect, IF XAxis(current_dir) THEN "x" ELSE "y") > 0

\* The last operation was rejected: it raised, drew nothing and left the
\* cursor where it was
Rejected ==
    /\ err # "none"
    /\ current_rect = last.pre.rect
    /\ current_dir = last.pre.dir
    /\ current_handle = last.pre.handle
    /\ Len(gen_rects) = last.nrects
    /\ Len(gen_vias) = last.nvias

\* C11: a turn with a direction token outside {+x,-x,+y,-y} fails with
\* InvalidDirection, and an operation called on a router that was given such
\* a token (its cursor then carries it) is rejected: nothing is drawn and the
\* cursor does not change
C11_InvalidDirectionFatal ==
    /\ (last.call.op = "turn" /\ last.call.dir \notin Dirs)
          => (err = "InvalidDirection" /\ Rejected)
    /\ (nops > 0 /\ last.pre.dir \notin Dirs) => Rejected

C13_TurnUpdatesCursor ==
    (last.call.op = "turn" /\ err = "none")
       => /\ Len(log) = 1
          /\ current_rect = log[1].rect
          /\ current_rect = gen_rects[Len(gen_rects)]
          /\ current_dir = last.call.dir
          /\ current_handle = SetHandleFromDir("", last.call.dir)
          /\ current_rect.layer = last.call.lyr
          /\ layer = last.call.lyr

\* C14: a call of draw_straight_route changes only the cursor's current
\* rectangle: the direction, the handle and the router's layer field after
\* the call are those before it, and the new segment is on the layer of the
\* rectangle that was current before
C14_ExtendPreserves ==
    [][(nops' = nops + 1 /\ last'.call.op = "extend")
          => /\ current_dir' = current_dir
             /\ current_handle' = current_handle
             /\ layer' = layer
             /\ current_rect'.layer = current_rect.layer
             /\ current_rect' = gen_rects'[Len(gen_rects')]
             /\ Len(gen_rects') = Len(gen_rects) + 1]_vars

\* A segment drawn after a turn to M2: the cursor is on a new rectangle on
\* M2 and still heads the way the turn left it
C14_Witness ==
    /\ nops = 2
    /\ last.call.op = "extend"
    /\ last.pre.rect.layer = "M2"
    /\ last.pre.dir = "-y"
    /\ current_rect # last.pre.rect
    /\ current_rect.layer = "M2"
    /\ current_dir = "-y"
    /\ current_handle = "cb"

\* The elements of a sequence
Elems(q) == {q[i] : i \in DOMAIN q}

\* C15: the router's history holds every shape produced so far: the
\* rectangle of every segment and junction the last operation completed is
\* in rect_list and in route_list, via_list has an entry for every via it
\* completed, and the rectangle the route started from is still the first
\* entry of the lists
C15_HistoryComplete ==
    /\ \A i \in DOMAIN log :
          log[i].ok => /\ log[i].rect \in Elems(loc.rect_list)
                       /\ log[i].rect \in Elems(loc.route_list)
    /\ Cardinality({i \in DOMAIN log : log[i].ok /\ log[i].via}) <= Len(loc.via_list)
    /\ Len(loc.rect_list) >= 1 /\ loc.rect_list[1] = gen_rects[1]
    /\ Len(loc.route_list) >= 1 /\ loc.route_list[1] = gen_rects[1]

\* C16: constructing a second router, or running an operation on it, changes
\* neither the configuration the first router resolves its widths, via sizes
\* and enclosures from, nor the first router's cursor
C16_RoutersIndependent ==
    [][other' # other
          => /\ config' = config
             /\ current_rect' = current_rect
             /\ current_dir' = current_dir
             /\ current_handle' = current_handle]_vars

\* The targets from the i-th on whose coordinates differ from the waypoint
\* accepted before them (prev), in input order
RECURSIVE KeptTargets(_, _, _)
KeptTargets(points, i, prev) ==
    IF i > Len(points) THEN <<>>
    ELSE IF points[i][1] = prev[1] THEN KeptTargets(points, i + 1, prev)
    ELSE <<points[i]>> \o KeptTargets(points, i + 1, points[i])

\* a occurs in b from position j on as a subsequence, from a's i-th element on
RECURSIVE SubseqFrom(_, _, _, _)
SubseqFrom(a, i, b, j) ==
    IF i > Len(a) THEN TRUE
    ELSE IF j > Len(b) THEN FALSE
    ELSE IF a[i] = b[j] THEN SubseqFrom(a, i + 1, b, j + 1)
    ELSE SubseqFrom(a, i, b, j + 1)

\* C17: the list returned by manhattanize_point_list starts with the initial
\* point, and every target whose coordinates differ from the waypoint
\* accepted before it is in the list after the initial point with its own
\* coordinate and layer, the targets in their input order
C17_TargetsKept ==
    m_pc = "done" =>
        /\ Len(m_out) >= 1
        /\ m_out[1] = m_init
        /\ SubseqFrom(KeptTargets(m_points, 1, m_init), 1, m_out, 2)

\* C17 witness: of three targets the second repeats the first's coordinate
\* and is left out, the other two are kept with an intermediate point in
\* front of each
C17_Witness ==
    /\ m_pc = "done"
    /\ Len(m_points) = 3
    /\ m_points[2][1] = m_points[1][1]
    /\ m_points[2][2] # m_points[1][2]
    /\ Len(KeptTargets(m_points, 1, m_init)) = 2
    /\ Len(m_out) = 5

\* C18: the first waypoint after the initial point in the list returned by
\* manhattanize_point_list differs from the initial point only along the
\* axis of the initial direction: y is kept for +x/-x, x is kept for +y/-y
C18_FirstSegmentOnAxis ==
    (m_pc = "done" /\ Len(m_out) >= 2)
       => IF XAxis(m_dir)
          THEN m_out[2][1][2] = m_out[1][1][2]
          ELSE m_out[2][1][1] = m_out[1][1][1]

\* The waypoints that follow prev when the travel axis is tracked by rule:
\* a target off in one axis is accepted directly and the axis becomes the
\* one that changed (rule "moved") or the one that did not (rule "kept"); a
\* target off in both axes gets an intermediate waypoint along the travel
\* axis on prev's layer, is accepted after it, and the axis flips; a target
\* at prev's coordinate is left out
RECURSIVE TrackedWaypoints(_, _, _, _, _)
TrackedWaypoints(points, i, prev, axis, rule) ==
    IF i > Len(points) THEN <<>>
    ELSE
     LET p == points[i]
         x_off == p[1][1] # prev[1][1]
         y_off == p[1][2] # prev[1][2]
         moved == IF x_off THEN "x" ELSE "y"
         kept == IF x_off THEN "y" ELSE "x"
         mid == IF axis = "x" THEN <<(<<p[1][1], prev[1][2]>>), prev[2]>>
                ELSE <<(<<prev[1][1], p[1][2]>>), prev[2]>>
     IN IF x_off /\ y_off
        THEN <<mid, p>> \o TrackedWaypoints(points, i + 1, p,
                                            IF axis = "x" THEN "y" ELSE "x", rule)
        ELSE IF ~x_off /\ ~y_off
        THEN TrackedWaypoints(points, i + 1, prev, axis, rule)
        ELSE <<p>> \o TrackedWaypoints(points, i + 1, p,
                                       IF rule = "moved" THEN moved ELSE kept, rule)

InitialAxis == IF XAxis(m_dir) THEN "x" ELSE "y"

\* C19 as stated: after a target accepted directly the travel axis is the
\* axis that did not change, and a later diagonal target gets its
\* intermediate waypoint along that axis
C19_AxisKeptRule ==
    m_pc = "done"
       => m_out = <<m_init>> \o TrackedWaypoints(m_points, 1, m_init, InitialAxis, "kept")

\* C19 amended: after a target accepted directly the travel axis is the axis
\* along which that target moved (the one that changed); after a diagonal
\* target it flips; the intermediate waypoint of a diagonal target moves
\* only along the travel axis and keeps the last waypoint's layer
C19_AxisTracking ==
    m_pc = "done"
       => m_out = <<m_init>> \o TrackedWaypoints(m_points, 1, m_init, InitialAxis, "moved")

\* C19 witness: a target straight across the initial direction was accepted
\* directly, the diagonal target after it got an intermediate waypoint that
\* goes on along the axis just travelled, on the first target's layer
C19_Witness ==
    /\ m_pc = "done"
    /\ m_dir = "+x"
    /\ Len(m_points) = 2
    /\ m_points[1] = <<(<<0, 1>>), "M2">>
    /\ m_points[2] = <<(<<1, 0>>), "M1">>
    /\ m_out = <<m_init, m_points[1], <<(<<0, 0>>), "M2">>, m_points[2]>>

\* A call of cardinal_router returned
CascadeCompleted == last.call.op = "cardinal" /\ err = "none"

\* The via registered by the i-th primitive call of the last operation
ViaOf(i) == gen_vias[last.nvias + Cardinality({j \in 1..i : log[j].via})]

\* What the claim says of the steps of a completed cascade apart from the
\* last shape: the final step's turn keeps the direction the cursor had
\* before it and sets no asymmetric enclosure on its via (uniform style);
\* every earlier turn sets the asymmetric enclosures on its via and is
\* followed by the next step's segment only
CascadeStepStyles ==
    /\ \A i \in Turns :
          IF \A j \in Turns : j <= i
          THEN /\ log[i].dir = log[i].pre_dir
               /\ current_dir = log[i].pre_dir
               /\ log[i].via => (ViaOf(i).enc_bot = <<>> /\ ViaOf(i).enc_top = <<>>)
          ELSE /\ log[i].via => (ViaOf(i).enc_bot # <<>> /\ ViaOf(i).enc_top # <<>>)
               /\ log[i + 1].op = "extend"
               /\ log[i + 1].to # log[i - 1].to
    /\ \A i \in Segments : i < Len(log) => log[i + 1].op = "turn"

TurnCompleted == last.call.op = "turn" /\ err = "none" /\ Len(log) = 1

\* The axis across a direction, on which a wire heading that way has its width
AcrossAxis(d) == IF XAxis(d) THEN "y" ELSE "x"

\* The output width draw_via resolves: the explicit one, else the
\* configured width of the target layer
ResolvedOutWidth ==
    IF last.call.out_width # 0 THEN last.call.out_width
    ELSE config[LayerKey(last.call.lyr)].width

\* C21 as stated: after any turn, one that keeps the axis included, the
\* junction rectangle's dimension across the incoming direction is that of
\* the rectangle that was current, and its dimension across the outgoing
\* direction is the resolved output width
C21_JunctionSizingAnyTurn ==
    TurnCompleted
       => /\ GetDim(log[1].rect, AcrossAxis(log[1].pre_dir))
               = GetDim(log[1].pre_rect, AcrossAxis(log[1].pre_dir))
          /\ GetDim(log[1].rect, AcrossAxis(log[1].dir)) = ResolvedOutWidth

\* C21 amended: the junction rectangle's dimension across the outgoing
\* direction is the resolved output width; its dimension across the incoming
\* direction is that of the rectangle that was current when the turn changes
\* the axis (when it keeps the axis both are the one dimension, which the
\* output width has set last)
C21_JunctionSizing ==
    TurnCompleted
       => /\ GetDim(log[1].rect, AcrossAxis(log[1].dir)) = ResolvedOutWidth
          /\ XAxis(log[1].pre_dir) # XAxis(log[1].dir)
                => GetDim(log[1].rect, AcrossAxis(log[1].pre_dir))
                     = GetDim(log[1].pre_rect, AcrossAxis(log[1].pre_dir))

\* C21 witness: a turn from a segment of width 4 heading along x to +y with
\* the explicit output width 2: the junction is 2 wide in x and 4 in y
C21_Witness ==
    /\ TurnCompleted
    /\ nops = 2
    /\ XAxis(log[1].pre_dir)
    /\ log[1].dir = "+y"
    /\ last.call.out_width = 2
    /\ GetDim(log[1].pre_rect, "y") = 4
    /\ GetDim(log[1].rect, "x") = 2
    /\ GetDim(log[1].rect, "y") = 4

\* The asymmetric enclosure list of a layer whose wire runs along direction
\* d, from the via's configured large and small values
WirePattern(d, via_id) ==
    IF XAxis(d)
    THEN <<config[via_id].asymm_enclosure_large, config[via_id].asymm_enclosure_large,
           config[via_id].asymm_enclosure_small, config[via_id].asymm_enclosure_small>>
    ELSE <<config[via_id].asymm_enclosure_small, config[via_id].asymm_enclosure_small,
           config[via_id].asymm_enclosure_large, config[via_id].asymm_enclosure_large>>

\* Direction of the wire on the lower and on the upper layer of the last turn
LowerWireDir ==
    IF LayerIdx(log[1].pre_rect.layer) < LayerIdx(log[1].layer)
    THEN log[1].pre_dir ELSE log[1].dir
UpperWireDir ==
    IF LayerIdx(log[1].pre_rect.layer) < LayerIdx(log[1].layer)
    THEN log[1].dir ELSE log[1].pre_dir

\* C22: after a turn between two layers with the asymmetric style, the
\* via's bottom set is the pattern of the wire on the lower layer and its
\* top set the pattern of the wire on the upper layer, each pattern chosen
\* by the axis of that wire (the incoming wire on the layer turned from, the
\* outgoing wire on the target layer), so the sets do not depend on whether
\* the turn goes up or down; an explicit enc_bot or enc_top replaces the
\* computed set
C22_AsymmEnclosure ==
    (TurnCompleted /\ log[1].via /\ last.call.enc_style = "asymm")
       => LET via == gen_vias[Len(gen_vias)]
          IN /\ via.enc_bot = (IF last.call.enc_bot # <<>> THEN last.call.enc_bot
                               ELSE WirePattern(LowerWireDir, via.via_id))
             /\ via.enc_top = (IF last.call.enc_top # <<>> THEN last.call.enc_top
                               ELSE WirePattern(UpperWireDir, via.via_id))

\* C22 witness: a turn down the stack from an M2 wire along x to an M1 wire
\* along y: the top set carries the x pattern, the bottom set the y pattern
C22_Witness ==
    /\ TurnCompleted
    /\ log[1].via
    /\ last.call.enc_style = "asymm"
    /\ log[1].pre_rect.layer = "M2"
    /\ log[1].layer = "M1"
    /\ XAxis(log[1].pre_dir)
    /\ ~XAxis(log[1].dir)
    /\ gen_vias[Len(gen_vias)].enc_top = <<3, 3, 1, 1>>
    /\ gen_vias[Len(gen_vias)].enc_bot = <<1, 1, 3, 3>>

\* The last primitive call of the last operation was a draw_via that raised
FailedTurn == Len(log) >= 1 /\ log[Len(log)].op = "turn" /\ ~log[Len(log)].ok

\* C23: between operations the four cursor fields go together: the handle
\* is the one of the direction and the layer field is the layer of the
\* current rectangle, so no field is left behind by an operation the others
\* reflect; and when a draw_via raised, the rectangle, direction, handle and
\* layer are those from before that call, while the shapes registered by the
\* operation up to then (an L-route's first segment) stay registered
C23_NoPartialUpdate ==
    /\ current_handle = SetHandleFromDir("", current_dir)
    /\ layer = current_rect.layer
    /\ FailedTurn
          => /\ err # "none"
             /\ current_rect = log[Len(log)].pre_rect
             /\ current_dir = log[Len(log)].pre_dir
             /\ Handle(current_rect, current_handle) = log[Len(log)].pre_anchor
             /\ Len(gen_rects) = last.nrects + Len(log)
             /\ \A i \in 1..Len(log) : gen_rects[last.nrects + i] = log[i].rect

\* The point cardinal_router starts from and its targets, in absolute
\* coordinates, as it hands them to manhattanize_point_list
StartPoint == <<StartAnchor, last.pre.rect.layer>>
AbsolutePointList ==
    [k \in DOMAIN last.call.points |-> <<AbsoluteTargets[k], last.call.points[k][2]>>]

\* Layers of the targets from the i-th on that sit at the coordinates of the
\* waypoint accepted before them (prev) on another layer than that waypoint
RECURSIVE DegenerateLayers(_, _, _)
DegenerateLayers(points, i, prev) ==
    IF i > Len(points) THEN {}
    ELSE IF points[i][1] = prev[1]
    THEN (IF points[i][2] # prev[2] THEN {points[i][2]} ELSE {})
            \cup DegenerateLayers(points, i + 1, prev)
    ELSE DegenerateLayers(points, i + 1, points[i])

\* Layers asked for by degenerate targets only: not the start layer and not
\* the layer of any target that moves
LostLayers ==
    DegenerateLayers(AbsolutePointList, 1, StartPoint)
       \ ({StartPoint[2]} \cup {p[2] : p \in Elems(KeptTargets(AbsolutePointList, 1, StartPoint))})

NoTargetMoves == \A k \in DOMAIN AbsoluteTargets : AbsoluteTargets[k] = StartAnchor

\* C25: cardinal_router called with no targets, or with targets that all
\* coincide with the start anchor, gets a manhattanized list of the start
\* point alone and fails indexing the empty waypoint list: no rectangle and
\* no via is registered, and the cursor's rectangle, direction, handle and
\* layer are those from before the call
C25_EmptyCascadeFails ==
    (last.call.op = "cardinal" /\ NoTargetMoves)
       => /\ ManhattanizePointList(last.pre.dir, StartPoint, AbsolutePointList)
               = <<StartPoint>>
          /\ err = "IndexError"
          /\ log = <<>>
          /\ Rejected
          /\ layer = gen_rects[1].layer

\* C25 witness: a cascade given two targets at the start anchor, the second
\* on the other layer, has failed
C25_Witness ==
    /\ last.call.op = "cardinal"
    /\ Len(last.call.points) = 2
    /\ NoTargetMoves
    /\ last.call.points[2][2] # last.pre.rect.layer
    /\ err = "IndexError"
    /\ nops = 1

====
